---------------------------- MODULE Spec2Model ----------------------------
(***************************************************************************)
(* A model of folklore/data/datasets.py: the RawDataset pipeline (add_url, *)
(* add_file, add_metadata, fetch, unpack, process), the fingerprint        *)
(* (to_dict, to_hash, from_dict) and the Dataset entity with its content   *)
(* hashing and persistence (Dataset.__init__, get_data_hashes, dump,       *)
(* load), and Dataset.from_raw on the registry of raw datasets.            *)
(*                                                                         *)
(* Python values are modelled as follows.  None is the string "None".  A   *)
(* dict is a function whose domain is a set of strings; {**a, **b} is      *)
(* Merge(a, b).  A list is a sequence.  Methods are operators from the     *)
(* object (self) and the arguments to the new object and the returned      *)
(* value; the actions at the end apply them to the state.                  *)
(***************************************************************************)
EXTENDS Naturals, Sequences, FiniteSets, TLC

VARIABLES
    rd,              \* the RawDataset object
    rd2,             \* a second RawDataset object, for comparing fingerprints
    shared,          \* whether rd and rd2 hold the same list object as file_list
    ds,              \* a Dataset object
    metadata_files,  \* cache directory: file_base -> contents of <file_base>.metadata
    dataset_files,   \* cache directory: file_base -> contents of <file_base>.dataset
    fetch_log,       \* per descriptor, what the most recent fetch loop did with it
    last             \* the most recent call: its arguments, what it did and returned

vars == <<rd, rd2, shared, ds, metadata_files, dataset_files, fetch_log, last>>

\* Longest file list the stage calls are followed on (specification Stages).
MaxFiles == 2

\* Longest file list process is followed on (specification Spec).
MaxProcessFiles == 1

\* Most entries the cache directory holds.
MaxCache == 1

\* Longest file list fingerprints are compared on (specification Fingerprints).
MaxHashFiles == 1

(***************************************************************************)
(* Python dicts                                                            *)
(***************************************************************************)
None == "None"

EmptyDict == [k \in {} |-> None]

\* {**a, **b}: the keys of both, b's values winning
Merge(a, b) == b @@ a

\* d.get(key, default)
Get(d, key, default) == IF key \in DOMAIN d THEN d[key] ELSE default

\* d.pop(key, None) for every key of keys, as to_hash does
PopAll(d, keys) == [k \in DOMAIN d \ keys |-> d[k]]

\* a.items() <= b.items()
ItemsSubset(a, b) == \A k \in DOMAIN a : k \in DOMAIN b /\ b[k] = a[k]

\* the str() of a Python bool, so that a returned flag and a returned None compare
PyBool(b) == IF b THEN "True" ELSE "False"

(***************************************************************************)
(* The record of the most recent call: the operation, its arguments, what  *)
(* it raised (None for nothing) and returned, and what it did: whether the *)
(* fetch loop ran, under which Fetcher outcomes (oks), on which            *)
(* descriptors the Fetcher was called, the outcome logged per descriptor,  *)
(* the numbers of Unpacker and transform invocations, whether process was  *)
(* served from the cache, whether the call repeats the call before it, and *)
(* what the same call of process would raise and return with force=True,   *)
(* and whether the cache held a full record under the call's key when the  *)
(* call began.                                                             *)
(* For dump: the resolved file_base, hash_type and dump_metadata.  For a   *)
(* pair of to_hash calls, on rd with kwargs and on rd2 with kwargs2: the   *)
(* two keys.  For fetch: whether fetched was true when the call began.     *)
(* For from_raw: the dataset_name asked for, and calls lists the Fetcher's *)
(* invocations of all the fetch loops of the call.  For the Dataset        *)
(* constructor: the dataset_name argument.                                 *)
(***************************************************************************)
NoCall ==
    [op |-> "init", raised |-> None, forced_raised |-> None,
     force |-> FALSE, use_docstring |-> FALSE, kwargs |-> EmptyDict,
     hit |-> FALSE, repeat |-> FALSE, was_fetched |-> FALSE, existed |-> FALSE,
     file_base |-> None, hash_type |-> None, dump_metadata |-> FALSE,
     kwargs2 |-> EmptyDict, dataset_name |-> None,
     ran |-> FALSE, oks |-> <<>>, calls |-> <<>>, log |-> <<>>,
     unpacker_calls |-> 0, transform_calls |-> 0,
     ret |-> None, forced_ret |-> None, keys |-> <<>>]

\* the record of a call
Call(op) == [NoCall EXCEPT !.op = op]

(***************************************************************************)
(* The values the model draws arguments from                               *)
(***************************************************************************)
\* the file name declared by the i-th descriptor added with add_url or add_file
FileNameAt == <<"f1", "f2", "f3", "f4">>

\* hash_value as declared by the caller: None, or the hash of the file
DeclaredHashes == {None, "h"}

DefaultName == "toy"

\* a pathlib.Path, and the str() of a path or of a str
Path(s) == [path |-> s]

Str(p) == [str |-> IF "path" \in DOMAIN p THEN p.path ELSE p.str]

\* raw_data_path
DefaultDir == Path("raw")

Dirs == {Path("raw"), Path("elsewhere")}

Names == {"toy", "iris"}

\* f'{self.name}.readme' and f'{self.name}.license'
ReadmeOf == [toy |-> "toy.readme", iris |-> "iris.readme"]

LicenseOf == [toy |-> "toy.license", iris |-> "iris.license"]

\* the load_function of the modelled RawDataset: partial(func, *args, **keywords)
Partial(func, args, keywords) == [func |-> func, args |-> args, keywords |-> keywords]

DefaultLoadFunction == Partial("process_dataset_default", <<>>, EmptyDict)

LoadFunctions == {DefaultLoadFunction, Partial("process_dataset_default", <<>>, [n |-> 1])}

(***************************************************************************)
(* The Fetcher (fetch.fetch_file): ok is the environment's choice of       *)
(* whether this download/verification succeeds.  On success the result is  *)
(* the local file and the hash is the verified one: the declared hash when *)
(* there is one, else the hash computed from the file.                     *)
(***************************************************************************)
fetch_file(item, ok) ==
    IF ok
    THEN [status |-> TRUE,
          result |-> item["file_name"],
          hash_value |-> IF Get(item, "hash_value", None) # None
                         THEN item["hash_value"] ELSE "h"]
    ELSE [status |-> FALSE, result |-> "error", hash_value |-> None]

(***************************************************************************)
(* RawDataset                                                              *)
(***************************************************************************)
RawDataset_init(name, load_function, dataset_dir, file_list) ==
    [name |-> name,
     file_list |-> file_list,
     load_function |-> load_function,
     dataset_dir |-> dataset_dir,
     fetched_ |-> FALSE,
     fetched_files_ |-> <<>>,
     unpacked_ |-> FALSE,
     unpack_path_ |-> None]

\* add_metadata(filename, contents, kind); raised names the exception, None for none
add_metadata(self, filename, contents, kind) ==
    LET filename_map == [DESCR |-> ReadmeOf[self.name], LICENSE |-> LicenseOf[self.name]]
    IN  IF kind \notin DOMAIN filename_map
        THEN [self |-> self, raised |-> "Unknown kind"]
        ELSE IF filename # None
        THEN [self |-> [self EXCEPT
                          !.file_list = Append(@, [file_name |-> filename, name |-> kind]),
                          !.fetched_ = FALSE],
              raised |-> None]
        ELSE IF contents # None
        THEN [self |-> [self EXCEPT
                          !.file_list = Append(@, [contents |-> contents,
                                                   file_name |-> filename_map[kind],
                                                   name |-> kind]),
                          !.fetched_ = FALSE],
              raised |-> None]
        ELSE [self |-> self, raised |-> "One of filename or contents is required"]

add_file(self, hash_type, hash_value, name, file_name) ==
    [self EXCEPT
       !.file_list = Append(@, [hash_type |-> hash_type, hash_value |-> hash_value,
                                name |-> name, file_name |-> file_name]),
       !.fetched_ = FALSE]

\* a faulty add_url: it takes the dataset back to not unpacked as well
add_url_resetting_unpacked(self, url, hash_type, hash_value, name, file_name) ==
    [self EXCEPT
       !.file_list = Append(@, [url |-> url, hash_type |-> hash_type,
                                hash_value |-> hash_value,
                                name |-> name, file_name |-> file_name]),
       !.fetched_ = FALSE,
       !.unpacked_ = FALSE,
       !.unpack_path_ = None]

add_url(self, url, hash_type, hash_value, name, file_name) ==
    [self EXCEPT
       !.file_list = Append(@, [url |-> url, hash_type |-> hash_type,
                                hash_value |-> hash_value,
                                name |-> name, file_name |-> file_name]),
       !.fetched_ = FALSE]

\* item.get('url', False), as a truth value
HasUrl(item) == Get(item, "url", None) # None

\* item['hash_value'] = hash_value
SetHash(item, hash_value) == Merge(item, [hash_value |-> hash_value])

(***************************************************************************)
(* The loop of fetch, from descriptor i on.  st holds the file list, the   *)
(* fetched files, the flag, and two records of what happened: calls, the   *)
(* descriptors the Fetcher was invoked on, in order, and log, the outcome  *)
(* per descriptor.  oks[i] is whether the Fetcher succeeds on descriptor i.*)
(***************************************************************************)
\* a faulty loop: it stops at every failing descriptor, with or without a url
RECURSIVE fetch_loop_stop_at_any_failure(_, _, _)
fetch_loop_stop_at_any_failure(st, i, oks) ==
    IF i > Len(st.file_list)
    THEN [st EXCEPT !.fetched_ = TRUE]
    ELSE LET item == st.file_list[i]
             r == fetch_file(item, oks[i])
             called == [st EXCEPT !.calls = Append(@, i)]
         IN  IF r.status
             THEN fetch_loop_stop_at_any_failure(
                      [called EXCEPT !.file_list[i] = SetHash(item, r.hash_value),
                                     !.fetched_files_ = Append(@, r.result),
                                     !.log[i] = "ok"],
                      i + 1, oks)
             ELSE [called EXCEPT !.log[i] = "failed"]

RECURSIVE fetch_loop(_, _, _)
fetch_loop(st, i, oks) ==
    IF i > Len(st.file_list)
    THEN [st EXCEPT !.fetched_ = TRUE]
    ELSE LET item == st.file_list[i]
             r == fetch_file(item, oks[i])
             called == [st EXCEPT !.calls = Append(@, i)]
         IN  IF r.status
             THEN fetch_loop([called EXCEPT
                                !.file_list[i] = SetHash(item, r.hash_value),
                                !.fetched_files_ = Append(@, r.result),
                                !.log[i] = "ok"],
                             i + 1, oks)
             ELSE IF HasUrl(item)
             THEN [called EXCEPT !.log[i] = "failed"]
             ELSE fetch_loop([called EXCEPT !.log[i] = "failed"], i + 1, oks)

\* a faulty end of fetch: the flag is set whether or not the loop was left by break
fetch_end_flag_unconditional(self, st) ==
    [self |-> [self EXCEPT !.file_list = st.file_list,
                           !.fetched_files_ = st.fetched_files_,
                           !.fetched_ = TRUE],
     ret |-> PyBool(TRUE), calls |-> st.calls, ran |-> TRUE, log |-> st.log]

\* what fetch leaves and returns once its loop has ended in st
fetch_end(self, st) ==
    [self |-> [self EXCEPT !.file_list = st.file_list,
                           !.fetched_files_ = st.fetched_files_,
                           !.fetched_ = st.fetched_],
     ret |-> PyBool(st.fetched_), calls |-> st.calls, ran |-> TRUE, log |-> st.log]

\* a fetch that did not run its loop
NoFetch(self) ==
    [self |-> self, ret |-> None, calls |-> <<>>, ran |-> FALSE, log |-> <<>>]

\* a faulty fetch: it runs its loop whether or not the dataset is fetched
fetch_ignoring_flag(self, force, oks) ==
    fetch_end(self,
              fetch_loop([file_list |-> self.file_list,
                          fetched_files_ |-> <<>>,
                          fetched_ |-> FALSE,
                          calls |-> <<>>,
                          log |-> [i \in 1..Len(self.file_list) |-> "skipped"]],
                         1, oks))

\* fetch(force): the new object, the returned value, the Fetcher's calls and the log
fetch(self, force, oks) ==
    IF self.fetched_ /\ ~force
    THEN NoFetch(self)
    ELSE fetch_end(self,
                   fetch_loop([file_list |-> self.file_list,
                               fetched_files_ |-> <<>>,
                               fetched_ |-> FALSE,
                               calls |-> <<>>,
                               log |-> [i \in 1..Len(self.file_list) |-> "skipped"]],
                              1, oks))

\* interim_data_path / self.name
InterimPath == [toy |-> "interim/toy", iris |-> "interim/iris"]

(***************************************************************************)
(* unpack(unpack_path, force).  fail_at is the environment's choice of the *)
(* fetched file on which the Unpacker (fetch.unpack) raises, 0 for none.   *)
(* extracted lists the files the Unpacker was given and extracted; raised  *)
(* is None or names what raised.                                           *)
(***************************************************************************)
\* a faulty rest of unpack: it hands the fetched files to the Unpacker whether or
\* not the dataset is unpacked
unpack_fetched_unguarded(f, unpack_path, force, fail_at) ==
    LET path == IF unpack_path = None THEN InterimPath[f.self.name] ELSE unpack_path
        n == Len(f.self.fetched_files_)
    IN  IF fail_at \in 1..n
        THEN [self |-> f.self, ret |-> None, raised |-> "Unpacker", fetch |-> f,
              extracted |-> SubSeq(f.self.fetched_files_, 1, fail_at - 1),
              unpacker_calls |-> fail_at]
        ELSE [self |-> [f.self EXCEPT !.unpacked_ = TRUE, !.unpack_path_ = path],
              ret |-> path, raised |-> None, fetch |-> f,
              extracted |-> f.self.fetched_files_, unpacker_calls |-> n]

\* the rest of unpack, f being the result of its implicit fetch
unpack_fetched(f, unpack_path, force, fail_at) ==
    LET path == IF unpack_path = None THEN InterimPath[f.self.name] ELSE unpack_path
        n == Len(f.self.fetched_files_)
    IN  IF f.self.unpacked_ /\ ~force
        THEN [self |-> f.self, ret |-> f.self.unpack_path_, raised |-> None, fetch |-> f,
              extracted |-> <<>>, unpacker_calls |-> 0]
        ELSE IF fail_at \in 1..n
        THEN [self |-> f.self, ret |-> None, raised |-> "Unpacker", fetch |-> f,
              extracted |-> SubSeq(f.self.fetched_files_, 1, fail_at - 1),
              unpacker_calls |-> fail_at]
        ELSE [self |-> [f.self EXCEPT !.unpacked_ = TRUE, !.unpack_path_ = path],
              ret |-> path, raised |-> None, fetch |-> f,
              extracted |-> f.self.fetched_files_, unpacker_calls |-> n]

\* a faulty unpack: it does not fetch first
unpack_without_fetch(self, unpack_path, force, oks, fail_at) ==
    unpack_fetched(NoFetch(self), unpack_path, force, fail_at)

unpack(self, unpack_path, force, oks, fail_at) ==
    unpack_fetched(IF ~self.fetched_ THEN fetch(self, FALSE, oks) ELSE NoFetch(self),
                   unpack_path, force, fail_at)

(***************************************************************************)
(* The transform reference (utils.serialize_partial / deserialize_partial) *)
(***************************************************************************)
serialize_partial(func) ==
    [load_function_module |-> "folklore.data.utils",
     load_function_name |-> func.func,
     load_function_args |-> func.args,
     load_function_kwargs |-> func.keywords]

deserialize_partial(func_dict) ==
    Partial(func_dict["load_function_name"],
            func_dict["load_function_args"],
            func_dict["load_function_kwargs"])

(***************************************************************************)
(* The fingerprint.  joblib.hash is taken to be injective: the digest of a *)
(* value under an algorithm is the pair of the two.                        *)
(***************************************************************************)
joblib_hash(value, hash_name) == [alg |-> hash_name, of |-> value]

to_dict(self) ==
    Merge(Merge([url_list |-> self.file_list], serialize_partial(self.load_function)),
          [name |-> self.name, dataset_dir |-> Str(self.dataset_dir)])

\* a faulty default: no key is ignored
IgnoreNothing == {}

\* the keys to_hash ignores when ignore is None
DefaultIgnore == {"dataset_dir"}

\* to_hash(ignore, hash_type='sha1', **kwargs); ignore is the set of keys to drop
to_hash(self, ignore, hash_type, kwargs) ==
    LET my_dict == PopAll(Merge(to_dict(self), kwargs), ignore)
    IN  joblib_hash(my_dict, hash_type)

\* the call of to_hash with kwargs by process: Python binds the keys ignore and
\* hash_type of kwargs to to_hash's own parameters
to_hash_call(self, kwargs) ==
    to_hash(self, Get(kwargs, "ignore", DefaultIgnore), Get(kwargs, "hash_type", "sha1"),
            PopAll(kwargs, {"ignore", "hash_type"}))

from_dict(obj_dict) ==
    RawDataset_init(obj_dict["name"], deserialize_partial(obj_dict),
                    Get(obj_dict, "dataset_dir", DefaultDir),
                    Get(obj_dict, "url_list", <<>>))

(***************************************************************************)
(* Dataset: a record of data, target and metadata                          *)
(***************************************************************************)
get_data_hashes(self, hash_type) ==
    [hash_type |-> hash_type,
     data_hash |-> joblib_hash(self.data, hash_type),
     target_hash |-> joblib_hash(self.target, hash_type)]

\* Dataset(dataset_name, data, target, metadata, update_hashes).  metadata=None is
\* given as the empty dict: the constructor treats the two alike
Dataset_init(dataset_name, data, target, metadata, update_hashes) ==
    IF dataset_name = None /\ Get(metadata, "dataset_name", None) = None
    THEN [raised |-> TRUE, self |-> None]
    ELSE LET the_name == IF dataset_name = None THEN metadata["dataset_name"]
                         ELSE dataset_name
             meta == Merge(metadata, [dataset_name |-> the_name])
             plain == [data |-> data, target |-> target, metadata |-> meta]
         IN  [raised |-> FALSE,
              self |-> IF update_hashes
                       THEN [plain EXCEPT
                               !.metadata = Merge(meta, get_data_hashes(plain, "sha1"))]
                       ELSE plain]

\* Dataset.name
Dataset_name(self) == Get(self.metadata, "dataset_name", None)

(***************************************************************************)
(* dump(file_base, hash_type, force, dump_metadata) on the cache directory *)
(* (mf: the .metadata files, df: the .dataset files).  The local variable  *)
(* metadata is bound to the metadata dict before self['metadata'] is       *)
(* rebound to the refreshed dict, and it is that first dict which is       *)
(* compared and written.  raised is None, "exists" or "changed".           *)
(* file_base is the resolved one (see default_file_base).                  *)
(***************************************************************************)
\* file_base=None stands for the Dataset's name
default_file_base(self, file_base) ==
    IF file_base = None THEN Dataset_name(self) ELSE file_base

\* a faulty dump: the hashes are not refreshed
dump_without_refresh(self, file_base, hash_type, force, dump_metadata, mf, df) ==
    IF file_base \in DOMAIN mf /\ ~force
    THEN [self |-> self,
          raised |-> IF ItemsSubset(self.metadata, mf[file_base])
                     THEN "exists" ELSE "changed",
          base |-> file_base, mf |-> mf, df |-> df]
    ELSE [self |-> self, raised |-> None, base |-> file_base,
          mf |-> IF dump_metadata THEN (file_base :> self.metadata) @@ mf ELSE mf,
          df |-> (file_base :> self) @@ df]

dump(self, file_base, hash_type, force, dump_metadata, mf, df) ==
    LET base == file_base
        metadata == self.metadata
        refreshed == [self EXCEPT
                        !.metadata = Merge(self.metadata, get_data_hashes(self, hash_type))]
    IN  IF base \in DOMAIN mf /\ ~force
        THEN [self |-> refreshed,
              raised |-> IF ItemsSubset(metadata, mf[base]) THEN "exists" ELSE "changed",
              base |-> base, mf |-> mf, df |-> df]
        ELSE [self |-> refreshed, raised |-> None, base |-> base,
              mf |-> IF dump_metadata THEN (base :> metadata) @@ mf ELSE mf,
              df |-> (base :> refreshed) @@ df]

\* a faulty load: it finds no file
load_finds_nothing(file_base, metadata_only, mf, df) ==
    [found |-> FALSE, value |-> None]

\* Dataset.load(file_base, metadata_only): found is FALSE for FileNotFoundError
load(file_base, metadata_only, mf, df) ==
    IF metadata_only
    THEN IF file_base \in DOMAIN mf
         THEN [found |-> TRUE, value |-> mf[file_base]]
         ELSE [found |-> FALSE, value |-> None]
    ELSE IF file_base \in DOMAIN df
         THEN [found |-> TRUE, value |-> df[file_base]]
         ELSE [found |-> FALSE, value |-> None]

(***************************************************************************)
(* default_metadata(use_docstring).  The raw data directory is outside the *)
(* model: readable is the environment's choice of whether the DESCR and    *)
(* LICENSE files of the file list can be opened; open() raises when not.   *)
(* The text read from a file is modelled by the file's name.               *)
(***************************************************************************)
DocText(load_function) == [doc_of |-> load_function]

RECURSIVE metadata_loop(_, _, _, _)
metadata_loop(file_list, i, raw, metadata) ==
    IF i > Len(file_list)
    THEN [raised |-> FALSE, metadata |-> metadata]
    ELSE LET fetch_dict == file_list[i]
             name == Get(fetch_dict, "name", None)
             optmap == [DESCR |-> "descr", LICENSE |-> "license"]
         IN  IF name \in DOMAIN optmap
             THEN IF raw
                  THEN metadata_loop(file_list, i + 1, raw,
                                     Merge(metadata,
                                           optmap[name] :> [text_of |-> fetch_dict["file_name"]]))
                  ELSE [raised |-> TRUE, metadata |-> metadata]
             ELSE metadata_loop(file_list, i + 1, raw, metadata)

default_metadata(self, use_docstring, readable) ==
    LET m == metadata_loop(self.file_list, 1, readable, EmptyDict)
        d == IF use_docstring
             THEN Merge(m.metadata, [descr |-> DocText(self.load_function)])
             ELSE m.metadata
    IN  [raised |-> m.raised,
         metadata |-> Merge(d, [dataset_name |-> self.name])]

(***************************************************************************)
(* The transform, load_function called with kwargs: a deterministic        *)
(* function of its bound and passed arguments (the files it reads are      *)
(* outside the model).  It hands the metadata it is given on to the        *)
(* Dataset.                                                                *)
(***************************************************************************)
Transform(load_function, kwargs) ==
    [metadata |-> kwargs["metadata"],
     data |-> [by |-> load_function, with |-> PopAll(kwargs, {"metadata"})],
     target |-> None]

(***************************************************************************)
(* process(cache_path, force, return_X_y=False, use_docstring, kwargs) on  *)
(* the cache directory (mf, df), in the order of its statements.           *)
(* transform_calls counts the invocations of the transform; raised is None *)
(* or names what raised.                                                   *)
(***************************************************************************)
\* dset.dump(dump_path=cache_path, file_base=meta_hash) has written
process_dumped(out, dumped) ==
    [out EXCEPT !.ret = dumped.self, !.mf = dumped.mf, !.df = dumped.df]

\* a faulty end of process: the Dataset is returned, not persisted
process_made_without_dump(out, made) ==
    IF made.raised
    THEN [out EXCEPT !.raised = "dataset_name is required"]
    ELSE [out EXCEPT !.ret = dump(made.self, out.key, "sha1", TRUE, TRUE,
                                  out.mf, out.df).self]

\* dset = Dataset(dset_opts)
process_made(out, made) ==
    IF made.raised
    THEN [out EXCEPT !.raised = "dataset_name is required"]
    ELSE process_dumped(out, dump(made.self, out.key, "sha1", TRUE, TRUE, out.mf, out.df))

\* dset_opts = self.load_function(kwargs)
process_transformed(out, dset_opts) ==
    process_made([out EXCEPT !.transform_calls = 1],
                 Dataset_init(None, dset_opts.data, dset_opts.target,
                              dset_opts.metadata, TRUE))

\* the miss: dm is the result of default_metadata
process_miss(out, dm, kwargs) ==
    IF dm.raised
    THEN [out EXCEPT !.raised = "FileNotFoundError"]
    ELSE process_transformed(
             out,
             Transform(out.self.load_function,
                       Merge(kwargs, [metadata |-> Merge(dm.metadata,
                                                         Get(kwargs, "metadata", EmptyDict))])))

\* from meta_hash on: out is the call's result so far, cached the result of load
process_keyed(out, cached, use_docstring, kwargs, readable) ==
    IF cached.found
    THEN [out EXCEPT !.ret = cached.value, !.hit = TRUE]
    ELSE process_miss(out, default_metadata(out.self, use_docstring, readable), kwargs)

\* the implicit unpack of process, or none
implicit_unpack(self, oks, fail_at) ==
    IF ~self.unpacked_
    THEN unpack(self, None, FALSE, oks, fail_at)
    ELSE [self |-> self, ret |-> self.unpack_path_, raised |-> None,
          fetch |-> NoFetch(self), extracted |-> <<>>, unpacker_calls |-> 0]

\* a faulty rest of process: the cache is read also when force is true
process_unpacked_reading_cache(u, meta_hash, force, use_docstring, kwargs, readable, mf, df) ==
    IF u.raised # None
    THEN [self |-> u.self, mf |-> mf, df |-> df,
          key |-> meta_hash, fetch |-> u.fetch, unpacker_calls |-> u.unpacker_calls,
          raised |-> u.raised, ret |-> None, transform_calls |-> 0, hit |-> FALSE]
    ELSE process_keyed(
             [self |-> u.self, mf |-> mf, df |-> df,
              key |-> meta_hash, fetch |-> u.fetch, unpacker_calls |-> u.unpacker_calls,
              raised |-> None, ret |-> None, transform_calls |-> 0, hit |-> FALSE],
             load(meta_hash, FALSE, mf, df),
             use_docstring, kwargs, readable)

\* the rest of process, u being the result of its implicit unpack
process_unpacked(u, meta_hash, force, use_docstring, kwargs, readable, mf, df) ==
    IF u.raised # None
    THEN [self |-> u.self, mf |-> mf, df |-> df,
          key |-> meta_hash, fetch |-> u.fetch, unpacker_calls |-> u.unpacker_calls,
          raised |-> u.raised, ret |-> None, transform_calls |-> 0, hit |-> FALSE]
    ELSE process_keyed(
             [self |-> u.self, mf |-> mf, df |-> df,
              key |-> meta_hash, fetch |-> u.fetch, unpacker_calls |-> u.unpacker_calls,
              raised |-> None, ret |-> None, transform_calls |-> 0, hit |-> FALSE],
             IF force THEN [found |-> FALSE, value |-> None]
             ELSE load(meta_hash, FALSE, mf, df),
             use_docstring, kwargs, readable)

process_fetched(u, force, use_docstring, kwargs, readable, mf, df) ==
    process_unpacked(u, to_hash_call(u.self, kwargs), force, use_docstring, kwargs,
                     readable, mf, df)

process(self, force, use_docstring, kwargs, oks, fail_at, readable, mf, df) ==
    process_fetched(implicit_unpack(self, oks, fail_at), force, use_docstring, kwargs,
                    readable, mf, df)

(***************************************************************************)
(* Dataset.from_raw(dataset_name, force, kwargs) on the registry           *)
(* dataset_list (available_raw_datasets(keys_only=False): name -> the dict *)
(* form of a RawDataset), in the order of its statements.  oks1 are the    *)
(* Fetcher's outcomes in raw_ds.fetch, oks2 those in the fetch that        *)
(* raw_ds.unpack runs when fetched is still false.  calls lists the        *)
(* Fetcher's invocations of both loops.                                    *)
(***************************************************************************)
\* ds = raw_ds.process(cache_path, force, kwargs) has returned or raised
from_raw_processed(f1, u, p) ==
    [self |-> p.self, raised |-> p.raised, ret |-> p.ret, mf |-> p.mf, df |-> p.df,
     calls |-> f1.calls \o u.fetch.calls \o p.fetch.calls,
     log |-> IF u.fetch.ran THEN u.fetch.log ELSE f1.log,
     unpacker_calls |-> u.unpacker_calls + p.unpacker_calls,
     transform_calls |-> p.transform_calls, hit |-> p.hit]

\* raw_ds.unpack(unpack_path, force) has returned or raised
from_raw_unpacked(f1, u, force, use_docstring, kwargs, oks2, readable, mf, df) ==
    IF u.raised # None
    THEN [self |-> u.self, raised |-> u.raised, ret |-> None, mf |-> mf, df |-> df,
          calls |-> f1.calls \o u.fetch.calls,
          log |-> IF u.fetch.ran THEN u.fetch.log ELSE f1.log,
          unpacker_calls |-> u.unpacker_calls, transform_calls |-> 0, hit |-> FALSE]
    ELSE from_raw_processed(f1, u, process(u.self, force, use_docstring, kwargs, oks2, 0,
                                           readable, mf, df))

\* raw_ds.fetch(fetch_path, force) has returned
from_raw_fetched(f1, force, use_docstring, kwargs, oks2, fail_at, readable, mf, df) ==
    from_raw_unpacked(f1, unpack(f1.self, None, force, oks2, fail_at),
                      force, use_docstring, kwargs, oks2, readable, mf, df)

\* a faulty from_raw: a name the registry does not have is taken for a RawDataset
\* without files
from_raw_unknown_as_empty(dataset_list, dataset_name, force, use_docstring, kwargs, oks1, oks2, fail_at, readable, mf, df) ==
    from_raw_fetched(fetch(IF dataset_name \in DOMAIN dataset_list
                           THEN from_dict(dataset_list[dataset_name])
                           ELSE RawDataset_init(DefaultName, DefaultLoadFunction,
                                                DefaultDir, <<>>),
                           force, oks1),
                     force, use_docstring, kwargs, oks2, fail_at, readable, mf, df)

from_raw(dataset_list, dataset_name, force, use_docstring, kwargs, oks1, oks2, fail_at, readable, mf, df) ==
    IF dataset_name \notin DOMAIN dataset_list
    THEN [self |-> None, raised |-> "Unknown Dataset", ret |-> None, mf |-> mf, df |-> df,
          calls |-> <<>>, log |-> <<>>, unpacker_calls |-> 0, transform_calls |-> 0,
          hit |-> FALSE]
    ELSE from_raw_fetched(fetch(from_dict(dataset_list[dataset_name]), force, oks1),
                          force, use_docstring, kwargs, oks2, fail_at, readable, mf, df)

(***************************************************************************)
(* The state after construction, and the calls                             *)
(***************************************************************************)
\* the record of a call that ran f, a result of fetch, under the Fetcher outcomes oks
WithFetch(call, f, oks) ==
    [call EXCEPT !.ran = f.ran, !.calls = f.calls, !.log = f.log,
                 !.oks = IF f.ran THEN oks ELSE <<>>]

(***************************************************************************)
(* The environment's choices, drawn only where the call consults them:     *)
(* the Fetcher's outcome per descriptor when the fetch loop runs, the file *)
(* the Unpacker fails on when the unpack loop runs, and whether the text   *)
(* files can be read when the file list names one.                         *)
(***************************************************************************)
FetcherChoices(self, runs) ==
    IF runs THEN [1..Len(self.file_list) -> BOOLEAN]
    ELSE {[i \in 1..Len(self.file_list) |-> TRUE]}

UnpackerChoices(self, runs, oks) ==
    IF runs
    THEN 0..Len((IF ~self.fetched_ THEN fetch(self, FALSE, oks).self
                 ELSE self).fetched_files_)
    ELSE {0}

ReadChoices(self) ==
    IF \E i \in 1..Len(self.file_list) :
           Get(self.file_list[i], "name", None) \in {"DESCR", "LICENSE"}
    THEN BOOLEAN ELSE {TRUE}

\* the object that holds the list object of other as its file_list sees what
\* other's call did to the list and to the descriptors in it
AliasOf(obj, other) ==
    IF shared THEN [obj EXCEPT !.file_list = other.file_list] ELSE obj

Init ==
    /\ rd = RawDataset_init(DefaultName, DefaultLoadFunction, DefaultDir, <<>>)
    /\ rd2 = None
    /\ shared = FALSE
    /\ ds = None
    /\ metadata_files = EmptyDict
    /\ dataset_files = EmptyDict
    /\ fetch_log = <<>>
    /\ last = NoCall

AddUrl(max, hashes) ==
    \E hash_value \in hashes :
        /\ Len(rd.file_list) < max
        /\ rd' = add_url(rd, "http", "sha1", hash_value, None,
                         FileNameAt[Len(rd.file_list) + 1])
        /\ last' = Call("add_url")
        /\ rd2' = AliasOf(rd2, rd')
        /\ UNCHANGED <<shared, ds, metadata_files, dataset_files, fetch_log>>

AddFile(max) ==
    /\ Len(rd.file_list) < max
    /\ rd' = add_file(rd, "sha1", None, None, FileNameAt[Len(rd.file_list) + 1])
    /\ last' = Call("add_file")
    /\ rd2' = AliasOf(rd2, rd')
    /\ UNCHANGED <<shared, ds, metadata_files, dataset_files, fetch_log>>

AddMetadata(max) ==
    \E contents \in {None, "text"}, kind \in {"DESCR", "OTHER"} :
        /\ Len(rd.file_list) < max
        /\ \E r \in {add_metadata(rd, None, contents, kind)} :
               /\ rd' = r.self
               /\ last' = [Call("add_metadata") EXCEPT !.raised = r.raised]
        /\ rd2' = AliasOf(rd2, rd')
        /\ UNCHANGED <<shared, ds, metadata_files, dataset_files, fetch_log>>

Fetch(forces) ==
    \E force \in forces :
      \E oks \in FetcherChoices(rd, ~rd.fetched_ \/ force) :
        \E r \in {fetch(rd, force, oks)} :
            /\ rd' = r.self
            /\ fetch_log' = IF r.ran THEN r.log ELSE fetch_log
            /\ last' = [WithFetch(Call("fetch"), r, oks) EXCEPT
                          !.force = force, !.ret = r.ret, !.was_fetched = rd.fetched_]
            /\ rd2' = AliasOf(rd2, rd')
            /\ UNCHANGED <<shared, ds, metadata_files, dataset_files>>

Unpack(forces) ==
    \E force \in forces :
      \E oks \in FetcherChoices(rd, ~rd.fetched_) :
       \E fail_at \in UnpackerChoices(rd, ~rd.unpacked_ \/ force, oks) :
        \E r \in {unpack(rd, None, force, oks, fail_at)} :
            /\ rd' = r.self
            /\ fetch_log' = IF r.fetch.ran THEN r.fetch.log ELSE fetch_log
            /\ last' = [WithFetch(Call("unpack"), r.fetch, oks) EXCEPT
                          !.force = force, !.ret = r.ret, !.raised = r.raised,
                          !.unpacker_calls = r.unpacker_calls]
            /\ rd2' = AliasOf(rd2, rd')
            /\ UNCHANGED <<shared, ds, metadata_files, dataset_files>>

\* the transform arguments (and caller-supplied metadata) process is called with
ProcessKwargs == {EmptyDict, [n |-> 1, metadata |-> [note |-> "x"]]}

Process ==
    \E force \in BOOLEAN, use_docstring \in BOOLEAN, kwargs \in ProcessKwargs,
       oks \in FetcherChoices(rd, ~rd.unpacked_ /\ ~rd.fetched_),
       readable \in ReadChoices(rd) :
      \E fail_at \in UnpackerChoices(rd, ~rd.unpacked_, oks) :
        \E r \in {process(rd, force, use_docstring, kwargs, oks, fail_at, readable,
                           metadata_files, dataset_files)} :
         \* what process(force=True) returns for the same call: on a miss, the same
         \E forced \in {IF r.hit
                         THEN process(rd, TRUE, use_docstring, kwargs, oks, fail_at,
                                      readable, metadata_files, dataset_files)
                         ELSE r} :
            /\ Cardinality(DOMAIN r.df) <= MaxCache
            /\ rd' = r.self
            /\ rd2' = AliasOf(rd2, rd')
            /\ UNCHANGED <<shared, ds>>
            /\ fetch_log' = IF r.fetch.ran THEN r.fetch.log ELSE fetch_log
            /\ metadata_files' = r.mf
            /\ dataset_files' = r.df
            /\ last' = [WithFetch(Call("process"), r.fetch, oks) EXCEPT
                          !.force = force, !.ret = r.ret, !.raised = r.raised,
                          !.unpacker_calls = r.unpacker_calls,
                          !.kwargs = kwargs, !.use_docstring = use_docstring,
                          !.hit = r.hit,
                          !.existed = (r.key \in DOMAIN dataset_files),
                          !.transform_calls = r.transform_calls,
                          !.repeat = /\ last.op = "process" /\ last.raised = None
                                     /\ ~last.force /\ ~force /\ r.raised = None
                                     /\ last.kwargs = kwargs
                                     /\ last.use_docstring = use_docstring,
                          !.forced_raised = forced.raised,
                          !.forced_ret = forced.ret]

(***************************************************************************)
(* Two RawDatasets and their fingerprints                                  *)
(***************************************************************************)
\* the keyword arguments to_hash is called with
HashKwargs ==
    {EmptyDict, [n |-> 1], [name |-> "iris"],
     [dataset_dir |-> "d1"], [dataset_dir |-> "d2"]}

HashInit ==
    /\ rd = RawDataset_init(DefaultName, DefaultLoadFunction, DefaultDir, <<>>)
    /\ rd2 \in {RawDataset_init(name, load_function, dataset_dir, <<>>) :
                   name \in Names, load_function \in LoadFunctions, dataset_dir \in Dirs}
    /\ shared = FALSE
    /\ ds = None
    /\ metadata_files = EmptyDict
    /\ dataset_files = EmptyDict
    /\ fetch_log = <<>>
    /\ last = NoCall

\* rd2.add_url(...)
AddUrl2(max, hashes) ==
    \E hash_value \in hashes :
        /\ Len(rd2.file_list) < max
        /\ rd2' = add_url(rd2, "http", "sha1", hash_value, None,
                          FileNameAt[Len(rd2.file_list) + 1])
        /\ rd' = AliasOf(rd, rd2')
        /\ last' = Call("add_url")
        /\ UNCHANGED <<shared, ds, metadata_files, dataset_files, fetch_log>>

\* rd2 = RawDataset.from_dict(rd.to_dict())
FromDict ==
    /\ rd2' = from_dict(to_dict(rd))
    /\ shared' = TRUE
    /\ last' = Call("from_dict")
    /\ UNCHANGED <<rd, ds, metadata_files, dataset_files, fetch_log>>

\* rd.to_hash(kwargs) and rd2.to_hash(kwargs2)
ToHash ==
    \E kwargs \in HashKwargs, kwargs2 \in HashKwargs :
        /\ last' = [Call("to_hash") EXCEPT
                      !.kwargs = kwargs, !.kwargs2 = kwargs2,
                      !.keys = <<to_hash_call(rd, kwargs), to_hash_call(rd2, kwargs2)>>]
        /\ UNCHANGED <<rd, rd2, shared, ds, metadata_files, dataset_files, fetch_log>>

(***************************************************************************)
(* A Dataset and the directory it is dumped to                             *)
(***************************************************************************)
DataValues == {"d1", "d2"}

TargetValues == {None, "t1"}

HashTypes == {"sha1", "md5"}

StoreInit ==
    /\ rd = RawDataset_init(DefaultName, DefaultLoadFunction, DefaultDir, <<>>)
    /\ rd2 = None
    /\ shared = FALSE
    /\ ds = Dataset_init(DefaultName, "d1", None, EmptyDict, TRUE).self
    /\ metadata_files = EmptyDict
    /\ dataset_files = EmptyDict
    /\ fetch_log = <<>>
    /\ last = NoCall

\* ds = Dataset(dataset_name, data, update_hashes=...), dataset_name being one of
\* names; when the constructor raises, ds is not assigned
Construct(names) ==
    \E dataset_name \in names, data \in DataValues, update_hashes \in BOOLEAN :
        \E r \in {Dataset_init(dataset_name, data, None, EmptyDict, update_hashes)} :
            /\ ds' = IF r.raised THEN ds ELSE r.self
            /\ last' = [Call("Dataset") EXCEPT
                          !.dataset_name = dataset_name,
                          !.raised = IF r.raised THEN "dataset_name is required" ELSE None]
            /\ UNCHANGED <<rd, rd2, shared, metadata_files, dataset_files, fetch_log>>

\* ds.data = value
SetData ==
    \E value \in DataValues :
        /\ ds' = [ds EXCEPT !.data = value]
        /\ last' = Call("setattr")
        /\ UNCHANGED <<rd, rd2, shared, metadata_files, dataset_files, fetch_log>>

\* ds.target = value
SetTarget ==
    \E value \in TargetValues :
        /\ ds' = [ds EXCEPT !.target = value]
        /\ last' = Call("setattr")
        /\ UNCHANGED <<rd, rd2, shared, metadata_files, dataset_files, fetch_log>>

\* ds.dump(file_base, hash_type, force, dump_metadata)
Dump ==
    \E file_base \in {None, DefaultName}, hash_type \in HashTypes,
       force \in BOOLEAN, dump_metadata \in BOOLEAN :
        \E r \in {dump(ds, default_file_base(ds, file_base), hash_type, force,
                       dump_metadata, metadata_files, dataset_files)} :
            /\ ds' = r.self
            /\ metadata_files' = r.mf
            /\ dataset_files' = r.df
            /\ last' = [Call("dump") EXCEPT
                          !.raised = r.raised, !.file_base = r.base,
                          !.force = force,
                          !.hash_type = hash_type, !.dump_metadata = dump_metadata]
            /\ UNCHANGED <<rd, rd2, shared, fetch_log>>

(***************************************************************************)
(* Datasets made from the registry                                         *)
(***************************************************************************)
\* the registry: raw_datasets.json, as available_raw_datasets returns it
DatasetList ==
    [toy |-> to_dict(add_url(RawDataset_init("toy", DefaultLoadFunction, DefaultDir, <<>>),
                             "http", "sha1", None, None, FileNameAt[1])),
     iris |-> to_dict(add_url(add_file(RawDataset_init("iris", DefaultLoadFunction,
                                                       DefaultDir, <<>>),
                                       "sha1", None, None, FileNameAt[1]),
                              "http", "sha1", None, None, FileNameAt[2]))]

\* the names from_raw is asked for: those of the registry and one it does not have
RequestedNames == DOMAIN DatasetList \cup {"absent"}

\* the RawDataset from_raw builds for a name, for drawing the environment's choices
RawOf(dataset_name) ==
    IF dataset_name \in DOMAIN DatasetList
    THEN from_dict(DatasetList[dataset_name])
    ELSE RawDataset_init(dataset_name, DefaultLoadFunction, DefaultDir, <<>>)

\* ds = Dataset.from_raw(dataset_name, force=force, kwargs), use_docstring being
\* left at its default; rd is left holding raw_ds, the RawDataset the call built
\* and worked on
FromRaw ==
    \E dataset_name \in RequestedNames, force \in BOOLEAN, kwargs \in ProcessKwargs :
      \E oks1 \in FetcherChoices(RawOf(dataset_name), TRUE) :
       \E oks2 \in FetcherChoices(fetch(RawOf(dataset_name), force, oks1).self,
                                  ~fetch(RawOf(dataset_name), force, oks1).self.fetched_) :
        \E fail_at \in UnpackerChoices(fetch(RawOf(dataset_name), force, oks1).self,
                                       TRUE, oks2),
           readable \in ReadChoices(RawOf(dataset_name)) :
          \E r \in {from_raw(DatasetList, dataset_name, force, FALSE, kwargs,
                             oks1, oks2, fail_at, readable,
                             metadata_files, dataset_files)} :
            /\ Cardinality(DOMAIN r.df) <= MaxCache
            /\ rd' = IF r.raised = "Unknown Dataset" THEN rd ELSE r.self
            /\ metadata_files' = r.mf
            /\ dataset_files' = r.df
            /\ fetch_log' = r.log
            /\ last' = [Call("from_raw") EXCEPT
                          !.dataset_name = dataset_name, !.force = force,
                          !.kwargs = kwargs,
                          !.raised = r.raised, !.ret = r.ret,
                          !.ran = (r.calls # <<>>), !.calls = r.calls, !.oks = oks1,
                          !.log = r.log, !.unpacker_calls = r.unpacker_calls,
                          !.transform_calls = r.transform_calls, !.hit = r.hit]
            /\ UNCHANGED <<rd2, shared, ds>>

\* the stage calls alone, on longer file lists
StagesNext ==
    \/ AddUrl(MaxFiles, DeclaredHashes)
    \/ AddFile(MaxFiles)
    \/ AddMetadata(MaxFiles)
    \/ Fetch(BOOLEAN)
    \/ Unpack(BOOLEAN)

Stages == Init /\ [][StagesNext]_vars

\* the whole pipeline: the file list is built of descriptors declared without a
\* hash, and the caller's own fetch and unpack calls are not forced (Stages has
\* the forced ones)
Next ==
    \/ AddUrl(MaxProcessFiles, {None})
    \/ AddFile(MaxProcessFiles)
    \/ AddMetadata(MaxProcessFiles)
    \/ Fetch({FALSE})
    \/ Unpack({FALSE})
    \/ Process

Spec == Init /\ [][Next]_vars

\* two RawDatasets, built, fetched, unpacked and rebuilt, and their keys
FingerprintsNext ==
    \/ AddUrl(MaxHashFiles, DeclaredHashes)
    \/ AddUrl2(MaxHashFiles, DeclaredHashes)
    \/ Fetch({FALSE})
    \/ Unpack({FALSE})
    \/ FromDict
    \/ ToHash

Fingerprints == HashInit /\ [][FingerprintsNext]_vars

\* a Dataset constructed, changed and dumped
StoreNext ==
    \/ Construct({None, DefaultName})
    \/ SetData
    \/ SetTarget
    \/ Dump

Store == StoreInit /\ [][StoreNext]_vars

\* Datasets made by name from the registry, into one cache directory, and
\* Datasets constructed without a name
RegistryNext ==
    \/ FromRaw
    \/ Construct({None})

Registry == Init /\ [][RegistryNext]_vars

(***************************************************************************)
(* Properties of the fetch stage (specification Stages)                    *)
(***************************************************************************)
\* whether a descriptor has a remote origin
IsRemote(item) == "url" \in DOMAIN item /\ item["url"] # None

\* the first descriptor with a remote origin on which the Fetcher fails, 0 for none
FirstRemoteFailure(file_list, oks) ==
    LET F == {i \in DOMAIN oks \cap (1..Len(file_list)) :
                  ~oks[i] /\ IsRemote(file_list[i])}
    IN  IF F = {} THEN 0 ELSE CHOOSE i \in F : \A j \in F : i <= j

\* the file names of the descriptors i among the first k with good[i], in order
RECURSIVE FilesWhere(_, _, _)
FilesWhere(file_list, k, good) ==
    IF k = 0 THEN <<>>
    ELSE IF good[k]
    THEN Append(FilesWhere(file_list, k - 1, good), file_list[k]["file_name"])
    ELSE FilesWhere(file_list, k - 1, good)

\* C7: a fetch loop visits the descriptors in declared order; it stops at the
\* first failing descriptor that has a url, attempts none after it and leaves
\* fetched false; a failing descriptor without a url does not stop it; fetched
\* is true exactly when the loop ended without a failure on a url, and
\* fetched_files lists the successful results in declared order.
C7_FetchLoop ==
    last.ran =>
        LET n == Len(rd.file_list)
            stop == FirstRemoteFailure(rd.file_list, last.oks)
            k == IF stop = 0 THEN n ELSE stop
        IN  /\ last.calls = [i \in 1..k |-> i]
            /\ \A i \in 1..n :
                   last.log[i] = IF i > k THEN "skipped"
                                 ELSE IF last.oks[i] THEN "ok" ELSE "failed"
            /\ rd.fetched_ = (stop = 0)
            /\ rd.fetched_files_ = FilesWhere(rd.file_list, k, last.oks)

\* a fetch in which a descriptor without a url failed, the loop went on to the
\* next descriptor, and stopped there on a failing url
C7_Witness ==
    /\ last.op = "fetch" /\ last.ran
    /\ Len(rd.file_list) = 2
    /\ ~IsRemote(rd.file_list[1]) /\ ~last.oks[1]
    /\ IsRemote(rd.file_list[2]) /\ ~last.oks[2]
    /\ last.calls = <<1, 2>>
    /\ ~rd.fetched_

\* C8: every call of fetch returns the value of fetched as it stands when the
\* call returns, and never raises.
C8_ReturnsFlag ==
    last.op = "fetch" => last.raised = None /\ last.ret = PyBool(rd.fetched_)

\* C6, as stated: fetched implies that the Fetcher succeeded on every descriptor
\* of the file list in the most recent fetch, and fetched_files holds one result
\* per descriptor.
C6_AllSucceeded ==
    rd.fetched_ =>
        /\ Len(fetch_log) = Len(rd.file_list)
        /\ \A i \in 1..Len(rd.file_list) : fetch_log[i] = "ok"
        /\ Len(rd.fetched_files_) = Len(rd.file_list)

\* C6, amended: fetched implies that the most recent fetch visited every
\* descriptor of the file list and failed on none that has a url, and
\* fetched_files holds, in order, one result per descriptor the Fetcher
\* succeeded on.
C6_AllVisited ==
    rd.fetched_ =>
        LET succeeded == [i \in DOMAIN fetch_log |-> fetch_log[i] = "ok"]
        IN  /\ Len(fetch_log) = Len(rd.file_list)
            /\ \A i \in 1..Len(rd.file_list) :
                   /\ fetch_log[i] \in {"ok", "failed"}
                   /\ fetch_log[i] = "failed" => ~IsRemote(rd.file_list[i])
            /\ rd.fetched_files_ = FilesWhere(rd.file_list, Len(rd.file_list), succeeded)

\* fetched is true although the Fetcher failed on a descriptor without a url
C6_Witness ==
    /\ rd.fetched_
    /\ \E i \in 1..Len(rd.file_list) :
           fetch_log[i] = "failed" /\ ~IsRemote(rd.file_list[i])
    /\ Len(rd.fetched_files_) < Len(rd.file_list)

C1_Idempotent ==
    [][(/\ last.op = "process" /\ last'.op = "process"
        /\ ~last.force /\ ~last'.force
        /\ last.raised = None /\ last'.raised = None
        /\ last'.kwargs = last.kwargs
        /\ last'.use_docstring = last.use_docstring)
          => /\ last.transform_calls + last'.transform_calls <= 1
             /\ last'.ret.metadata = last.ret.metadata]_vars

\* the second of two such calls has returned, served from the cache
C1_Witness ==
    /\ last.op = "process" /\ last.repeat
    /\ last.hit /\ last.transform_calls = 0

\* C2: process(force=False) returns the Dataset that process(force=True) would
\* return for the same call.
C2_CacheReuseValid ==
    (last.op = "process" /\ ~last.force /\ last.raised = None
       /\ last.forced_raised = None)
        => last.ret = last.forced_ret

(***************************************************************************)
(* Properties of the fingerprint (specification Fingerprints)              *)
(***************************************************************************)
\* two RawDatasets with the same name, file-list values and transform reference
SameDefinition(a, b) ==
    /\ a.name = b.name
    /\ a.file_list = b.file_list
    /\ a.load_function = b.load_function

\* C3: two RawDatasets with the same name, the same file-list values and the
\* same transform reference give the same key for the same transform
\* arguments, whatever their dataset_dir, flags, fetched files and unpack
\* path, and also when one is from_dict(to_dict()) of the other.
C3_SameDefinitionSameKey ==
    (last.op = "to_hash" /\ SameDefinition(rd, rd2) /\ last.kwargs = last.kwargs2)
        => last.keys[1] = last.keys[2]

\* the keys of a fetched and unpacked RawDataset and of its from_dict(to_dict()),
\* which is neither and has another dataset_dir, have been computed
C3_Witness ==
    /\ last.op = "to_hash" /\ last.kwargs = last.kwargs2
    /\ shared /\ SameDefinition(rd, rd2)
    /\ Len(rd.file_list) > 0
    /\ rd.fetched_ /\ rd.unpacked_ /\ ~rd2.fetched_ /\ ~rd2.unpacked_
    /\ rd.fetched_files_ # rd2.fetched_files_
    /\ rd.dataset_dir # rd2.dataset_dir

\* C4: two pairs of a RawDataset and transform arguments that differ in a
\* file's hash value, in the transform reference, in the dataset name or in a
\* transform argument give different keys.
C4_DifferentInputsDifferentKeys ==
    (last.op = "to_hash" /\ (~SameDefinition(rd, rd2) \/ last.kwargs # last.kwargs2))
        => last.keys[1] # last.keys[2]

(***************************************************************************)
(* Properties of dump (specification Store)                                *)
(***************************************************************************)
\* C9, for every key: a key that has a full record has a metadata-only record,
\* which equals the metadata embedded in the full record.  A dump with
\* dump_metadata=False alone violates it, as it writes the full record only.
C9_EveryKey ==
    \A key \in DOMAIN dataset_files :
        /\ load(key, TRUE, metadata_files, dataset_files).found
        /\ load(key, TRUE, metadata_files, dataset_files).value
             = load(key, FALSE, metadata_files, dataset_files).value.metadata

\* C9, for the key of a dump that has just written both records: the
\* metadata-only record equals the metadata embedded in the full record, so
\* load(key, metadata_only=True) equals load(key).metadata.
C9_MetadataRecordMatches ==
    (last.op = "dump" /\ last.raised = None /\ last.dump_metadata) =>
        /\ load(last.file_base, TRUE, metadata_files, dataset_files).found
        /\ load(last.file_base, TRUE, metadata_files, dataset_files).value
             = load(last.file_base, FALSE, metadata_files, dataset_files).value.metadata

\* C10: when dump has persisted the Dataset, the content hashes in the
\* Dataset's metadata and in the persisted full record are the hashes of the
\* payload fields as they are then, under the requested hash_type.
C10_HashesFresh ==
    (last.op = "dump" /\ last.raised = None) =>
        LET full == load(last.file_base, FALSE, metadata_files, dataset_files).value
            fresh == [hash_type |-> last.hash_type,
                      data_hash |-> joblib_hash(ds.data, last.hash_type),
                      target_hash |-> joblib_hash(ds.target, last.hash_type)]
        IN  /\ full.data = ds.data
            /\ full.target = ds.target
            /\ \A k \in DOMAIN fresh :
                   /\ k \in DOMAIN ds.metadata /\ ds.metadata[k] = fresh[k]
                   /\ k \in DOMAIN full.metadata /\ full.metadata[k] = fresh[k]

\* dump has persisted, under md5, a Dataset whose metadata held no hash of its
\* present data before the call: the metadata-only record it wrote shows what the
\* metadata was
C10_Witness ==
    /\ last.op = "dump" /\ last.raised = None /\ last.dump_metadata
    /\ last.hash_type = "md5"
    /\ ds.data = "d2" /\ ds.target = "t1"
    /\ LET before == metadata_files[last.file_base]
       IN  "data_hash" \in DOMAIN before => before["data_hash"].of # ds.data

\* C11, first sentence: a dump with force=False under a file-base name that has a
\* metadata-only record raises and leaves the metadata-only and the full record
\* of the directory as they were.
C11_ConflictKeepsRecords ==
    [][(last'.op = "dump" /\ ~last'.force /\ last'.file_base \in DOMAIN metadata_files)
          => /\ last'.raised \in {"exists", "changed"}
             /\ metadata_files' = metadata_files
             /\ dataset_files' = dataset_files]_vars

\* C11, second sentence: a dump with force=True (and dump_metadata as by default)
\* under a file-base name that has a metadata-only record succeeds and replaces
\* both records with the Dataset as it is after the call: the full record is the
\* Dataset, the metadata-only record is its metadata.
C11_ForceReplacesBoth ==
    [][(/\ last'.op = "dump" /\ last'.force /\ last'.dump_metadata
        /\ last'.file_base \in DOMAIN metadata_files)
          => /\ last'.raised = None
             /\ dataset_files'[last'.file_base] = ds'
             /\ metadata_files'[last'.file_base] = ds'.metadata]_vars

\* C12: a dump that fails on a name conflict signals "already exists" exactly
\* when the Dataset's metadata with the content hashes of its present payloads
\* (which is the Dataset's metadata when the call ends) is a subset of the
\* metadata-only record under that name, and "content has changed" otherwise.
C12_ConflictSignal ==
    (last.op = "dump" /\ last.raised # None) =>
        /\ last.raised \in {"exists", "changed"}
        /\ (last.raised = "exists")
             = ItemsSubset(ds.metadata, metadata_files[last.file_base])

\* C12, its particular case: a Dataset whose data differs from the data hashed in
\* the metadata-only record under that name gets "content has changed"
C12_ChangedPayloadSignal ==
    (/\ last.op = "dump" /\ last.raised # None
     /\ "data_hash" \in DOMAIN metadata_files[last.file_base]
     /\ metadata_files[last.file_base]["data_hash"].of # ds.data)
        => last.raised = "changed"

(***************************************************************************)
(* Properties of the stages, continued                                     *)
(***************************************************************************)
\* C13: within one call (of fetch, unpack, process or from_raw) the Fetcher is
\* invoked at most once per descriptor of the file list.
C13_NoRetry ==
    \A i \in 1..Len(last.calls), j \in 1..Len(last.calls) :
        last.calls[i] = last.calls[j] => i = j

\* C14: in every state unpacked implies fetched.
C14_StageOrder ==
    rd.unpacked_ => rd.fetched_

\* C14, its second part: a call whose fetch loop ended on a failing url does not
\* turn unpacked from false to true.
C14_FailedFetchKeepsUnpacked ==
    [][(last'.ran /\ ~rd'.fetched_ /\ ~rd.unpacked_) => ~rd'.unpacked_]_vars

\* C15, as stated: fetch(force=False) on a fetched RawDataset does not invoke the
\* Fetcher and changes nothing of the object; fetch(force=True) on a fetched
\* RawDataset invokes the Fetcher on every descriptor, and fetched_files holds the
\* results of this call alone.
C15_RefetchesEvery ==
    [][(rd.fetched_ /\ last'.op = "fetch") =>
          IF ~last'.force
          THEN ~last'.ran /\ last'.calls = <<>> /\ rd' = rd
          ELSE /\ last'.ran
               /\ last'.calls = [i \in 1..Len(rd.file_list) |-> i]
               /\ rd'.fetched_files_
                    = FilesWhere(rd'.file_list, Len(rd'.file_list), last'.oks)]_vars

\* C15, amended: fetch(force=False) on a fetched RawDataset does not invoke the
\* Fetcher and changes nothing of the object; fetch(force=True) on a fetched
\* RawDataset runs the fetch loop again from an emptied fetched_files: the
\* Fetcher is invoked on the descriptors in declared order up to the first
\* failing one that has a url (on every descriptor when there is none),
\* fetched_files holds the successful results of this call alone, and unpacked
\* and unpack_path are unchanged.
C15_NoOpOrRefetch ==
    [][(rd.fetched_ /\ last'.op = "fetch") =>
          IF ~last'.force
          THEN ~last'.ran /\ last'.calls = <<>> /\ rd' = rd
          ELSE LET stop == FirstRemoteFailure(rd'.file_list, last'.oks)
                   k == IF stop = 0 THEN Len(rd.file_list) ELSE stop
               IN  /\ last'.ran
                   /\ last'.calls = [i \in 1..k |-> i]
                   /\ rd'.fetched_files_ = FilesWhere(rd'.file_list, k, last'.oks)
                   /\ Len(rd'.file_list) = Len(rd.file_list)
                   /\ rd'.unpacked_ = rd.unpacked_
                   /\ rd'.unpack_path_ = rd.unpack_path_]_vars

\* a forced fetch of a fetched and unpacked RawDataset has stopped at the first
\* of two descriptors, fetched_files emptied
C15_Witness ==
    /\ last.op = "fetch" /\ last.force /\ last.ran /\ last.was_fetched
    /\ Len(rd.file_list) = 2 /\ last.calls = <<1>>
    /\ rd.fetched_files_ = <<>> /\ rd.unpacked_
    /\ ~rd.fetched_

C17_FailureLeavesNotUnpacked ==
    (last.op = "unpack" /\ last.raised = "Unpacker") =>
        /\ last.unpacker_calls \in 1..Len(rd.fetched_files_)
        /\ ~rd.unpacked_

(***************************************************************************)
(* Properties of process and the cache (specification Spec)                *)
(***************************************************************************)
\* C18: when a call of process returns, the cache directory holds a full record
\* under the key to_hash of the transform arguments, equal to the Dataset
\* returned; an unforced call that finds no record under the key runs the
\* transform once and is not served from the cache.
C18_ReturnedIsCached ==
    [][(last'.op = "process" /\ last'.raised = None) =>
          LET key == to_hash_call(rd', last'.kwargs)
          IN  /\ load(key, FALSE, metadata_files', dataset_files').found
              /\ load(key, FALSE, metadata_files', dataset_files').value = last'.ret
              /\ (~last'.force /\ ~load(key, FALSE, metadata_files, dataset_files).found)
                    => (last'.transform_calls = 1 /\ ~last'.hit)]_vars

\* an unforced process has fetched and unpacked the files, missed the cache, run
\* the transform and persisted its result
C18_Witness ==
    /\ last.op = "process" /\ ~last.force /\ last.raised = None
    /\ last.ran /\ Len(rd.file_list) > 0 /\ rd.fetched_
    /\ ~last.hit /\ ~last.existed /\ last.transform_calls = 1
    /\ to_hash_call(rd, last.kwargs) \in DOMAIN dataset_files

\* C19: a call of process with force=True is not served from the cache and never
\* raises a persistence conflict; when it returns, it has invoked the transform
\* exactly once and both records under the key are those of the Dataset
\* returned, whether or not the key had a record before.
C19_ForcedOverwrites ==
    [][(last'.op = "process" /\ last'.force) =>
          /\ ~last'.hit
          /\ last'.raised \notin {"exists", "changed"}
          /\ last'.raised = None =>
                LET key == to_hash_call(rd', last'.kwargs)
                IN  /\ last'.transform_calls = 1
                    /\ key \in DOMAIN metadata_files' /\ key \in DOMAIN dataset_files'
                    /\ dataset_files'[key] = last'.ret
                    /\ metadata_files'[key] = last'.ret.metadata]_vars

\* a forced process has returned for a key that had a record in the cache, which
\* it has replaced with another
C19_Witness ==
    /\ last.op = "process" /\ last.force /\ last.raised = None
    /\ last.existed /\ last.use_docstring
    /\ last.transform_calls = 1
    /\ "descr" \in DOMAIN dataset_files[to_hash_call(rd, last.kwargs)].metadata

(***************************************************************************)
(* Properties of the fingerprint, continued (specification Fingerprints)   *)
(***************************************************************************)
\* C20: a call of fetch or unpack, which does not edit the file list with
\* add_url, add_file or add_metadata, leaves the key to_hash returns for any
\* given transform arguments as it was before the call.
C20_KeyStableOverLifecycle ==
    [][(last'.op \in {"fetch", "unpack"}) =>
          \A kwargs \in HashKwargs :
              to_hash_call(rd', kwargs) = to_hash_call(rd, kwargs)]_vars

(***************************************************************************)
(* Properties of definition errors (specification Registry)                *)
(***************************************************************************)
\* C21: from_raw raises "Unknown Dataset" exactly when the name is not in the
\* registry, and then it has invoked neither the Fetcher nor the Unpacker nor
\* the transform, returns nothing and leaves the cache directory as it was;
\* the Dataset constructor called without a dataset_name and without a
\* dataset_name in the metadata raises, and no Dataset is made.
C21_DefinitionErrors ==
    [][/\ last'.op = "from_raw" =>
            /\ (last'.raised = "Unknown Dataset")
                 = (last'.dataset_name \notin DOMAIN DatasetList)
            /\ last'.dataset_name \notin DOMAIN DatasetList =>
                  /\ last'.calls = <<>> /\ ~last'.ran
                  /\ last'.unpacker_calls = 0
                  /\ last'.transform_calls = 0
                  /\ last'.ret = None
                  /\ metadata_files' = metadata_files
                  /\ dataset_files' = dataset_files
       /\ (last'.op = "Dataset" /\ last'.dataset_name = None) =>
            /\ last'.raised = "dataset_name is required"
            /\ ds' = ds]_vars

\* from_raw has raised for a name the registry does not have, the cache directory
\* holding a Dataset made before
C21_Witness ==
    /\ last.op = "from_raw" /\ last.raised = "Unknown Dataset"
    /\ last.dataset_name = "absent"
    /\ DOMAIN dataset_files # {}

(***************************************************************************)
(* Properties of the transform's input (specification Spec)                *)
(***************************************************************************)
\* C22: when process invokes the transform, every descriptor of the file list
\* has been fetched with success and its fetched file handed to the Unpacker
\* since it was added.  For the descriptor added by the call just before, that
\* can only have happened within the process call itself: its fetch loop ran
\* and succeeded on that descriptor, and the Unpacker was given every fetched
\* file.
C22_TransformOnUnpackedOnly ==
    [][(/\ last'.op = "process" /\ last'.transform_calls > 0
        /\ last.op \in {"add_url", "add_file", "add_metadata"}
        /\ last.raised = None)
       => /\ last'.ran
          /\ last'.log[Len(rd.file_list)] = "ok"
          /\ rd'.fetched_
          /\ last'.unpacker_calls = Len(rd'.fetched_files_)
          /\ last'.unpacker_calls > 0]_vars

(***************************************************************************)
(* Properties of the add_ methods (specification Stages)                   *)
(***************************************************************************)
\* after is before with one descriptor appended and fetched false, all else equal
AppendedOne(before, after) ==
    /\ Len(after.file_list) = Len(before.file_list) + 1
    /\ SubSeq(after.file_list, 1, Len(before.file_list)) = before.file_list
    /\ ~after.fetched_
    /\ after.fetched_files_ = before.fetched_files_
    /\ after.unpacked_ = before.unpacked_
    /\ after.unpack_path_ = before.unpack_path_

\* C23: a call of add_url, add_file or add_metadata that returns has appended
\* exactly one descriptor to the end of the file list and set fetched false,
\* the descriptors before it, fetched_files, unpacked and unpack_path being as
\* they were; a call of add_metadata that raises has changed nothing.  On
\* every dataset, add_metadata raises exactly when the kind is unknown or
\* neither filename nor contents is given.
C23_AddAppendsOne ==
    [][/\ last'.op \in {"add_url", "add_file", "add_metadata"} =>
            IF last'.raised = None
            THEN AppendedOne(rd, rd')
            ELSE last'.op = "add_metadata" /\ rd' = rd
       /\ \A kind \in {"DESCR", "LICENSE", "OTHER"}, contents \in {None, "text"},
             filename \in {None, "notes.txt"} :
            \E r \in {add_metadata(rd, filename, contents, kind)} :
               /\ (r.raised # None)
                    = (kind = "OTHER" \/ (filename = None /\ contents = None))
               /\ IF r.raised = None THEN AppendedOne(rd, r.self) ELSE r.self = rd]_vars

\* add_url has appended a second descriptor to an unpacked dataset with one
\* fetched file
C23_Witness ==
    /\ last.op = "add_url"
    /\ Len(rd.file_list) = 2
    /\ ~rd.fetched_ /\ rd.unpacked_
    /\ Len(rd.fetched_files_) = 1

=============================================================================
